---- MODULE Spec2Model ----
(***************************************************************************)
(* Model of sonic/create-docker.py: the CreateSingleDocker workflow, its   *)
(* platform inference (stage 1 from the image-archive filename, stage 2    *)
(* from the extracted qcow2 filename), the supervision of the child build  *)
(* process, the drop-folder cleanup and the final exit status.             *)
(*                                                                         *)
(* Representation.  A filename or a platform string is the sequence of its *)
(* '-'-separated parts: "8000-2512-f-8101-image-eft15.1.tar" is            *)
(* <<"8000","2512","f","8101","image","eft15.1.tar">> and "8101-32H" is    *)
(* <<"8101","32H">>.  None is the value None of the source.  The file      *)
(* system is a function from paths to "none", "file", "dir" or "partial"   *)
(* (a directory that lost part of its contents to a failed deletion).      *)
(***************************************************************************)
EXTENDS Integers, Sequences, FiniteSets, TLC

None == <<>>

Range(s) == {s[i] : i \in 1..Len(s)}

(***************************************************************************)
(* PLATFORM MAPPINGS                                                       *)
(***************************************************************************)
PLATFORM_MAPPING ==
    (<<"8000">> :> <<"8000">>) @@
    (<<"8101">> :> <<"8101", "32H">>) @@
    (<<"8102">> :> <<"8102", "64H">>) @@
    (<<"8122">> :> <<"8122", "64EHF", "O">>) @@
    (<<"8201">> :> <<"8201", "32FH">>) @@
    (<<"8202">> :> <<"8202">>) @@
    (<<"8212">> :> <<"8212", "48FH", "M">>) @@
    (<<"8711">> :> <<"8711", "32FH", "M">>) @@
    (<<"8804">> :> <<"8804">>) @@
    (<<"8808">> :> <<"8800", "lc", "36fh", "m">>) @@
    (<<"8101", "32FH">> :> <<"8101", "32FH">>) @@
    (<<"8101", "32H">> :> <<"8101", "32H">>) @@
    (<<"8102", "64H">> :> <<"8102", "64H">>) @@
    (<<"8111", "32EH">> :> <<"8111", "32EH">>) @@
    (<<"8122", "64EHF", "O">> :> <<"8122", "64EHF", "O">>) @@
    (<<"8201", "24H8FH">> :> <<"8201", "24H8FH">>) @@
    (<<"8201", "sys">> :> <<"8201", "sys">>) @@
    (<<"8201", "32FH">> :> <<"8201", "32FH">>) @@
    (<<"8202", "32FH", "M">> :> <<"8202", "32FH", "M">>) @@
    (<<"8212", "48FH", "M">> :> <<"8212", "48FH", "M">>) @@
    (<<"8711", "32FH", "M">> :> <<"8711", "32FH", "M">>) @@
    (<<"ncs1010">> :> <<"ncs1010">>)

QCOW2_TO_PLATFORM ==
    (<<"8000", "x64">> :> <<"8201", "sys">>) @@
    (<<"8101", "x64">> :> <<"8101", "32H">>) @@
    (<<"8101", "32FH", "x64">> :> <<"8101", "32FH">>) @@
    (<<"8102", "x64">> :> <<"8102", "64H">>) @@
    (<<"8111", "32EH", "x64">> :> <<"8111", "32EH">>) @@
    (<<"8122", "64EHF", "O", "x64">> :> <<"8122", "64EHF", "O">>) @@
    (<<"8201", "x64">> :> <<"8201", "32FH">>) @@
    (<<"8202", "x64">> :> <<"8202">>) @@
    (<<"8202", "32FH", "M", "x64">> :> <<"8202", "32FH", "M">>) @@
    (<<"8212", "48FH", "M", "x64">> :> <<"8212", "48FH", "M">>) @@
    (<<"8711", "32FH", "M", "x64">> :> <<"8711", "32FH", "M">>)

\* The default platform of _extract_platform_from_filename.
DefaultPlatform == <<"8201", "32FH">>

(***************************************************************************)
(* String predicates of the source, on the parts the model uses.           *)
(***************************************************************************)
\* part.isdigit() and len(part) == 4 and part.startswith('8')
IsFourDigit8(part) ==
    part \in {"8000", "8101", "8102", "8111", "8122", "8201", "8202", "8212",
              "8301", "8711", "8804", "8808"}

\* 'ncs1010' in part
ContainsNcs1010(part) == part \in {"ncs1010", "ncs1010.tar"}

\* parts.index(x): the first position holding x
Index(parts, x) ==
    CHOOSE i \in 1..Len(parts) :
        parts[i] = x /\ \A j \in 1..(i - 1) : parts[j] # x

\* platform_part.split('-')[0] if '-' in platform_part else platform_part:
\* a part of filename.split('-') holds no '-'.
BasePlatform(platform_part) == platform_part

\* self.platform_mapping.get(part, part)
MappingGet(part) ==
    IF <<part>> \in DOMAIN PLATFORM_MAPPING THEN PLATFORM_MAPPING[<<part>>]
    ELSE <<part>>

\* The part after the first marker, or None when the marker is absent or last.
PartAfter(parts, marker) ==
    IF marker \in Range(parts) /\ Index(parts, marker) + 1 <= Len(parts)
    THEN <<parts[Index(parts, marker) + 1]>>
    ELSE None

\* Faulty variant of FallbackScan: the scan takes the last matching part.
FallbackScanLast(parts) ==
    LET hits == {i \in 1..Len(parts) : IsFourDigit8(parts[i])}
    IN  IF hits = {} THEN DefaultPlatform
        ELSE MappingGet(parts[CHOOSE i \in hits : \A j \in hits : j <= i])

\* for part in parts: if part.isdigit() and len(part) == 4 and
\* part.startswith('8'): return mapping.get(part, part); else raise ValueError,
\* which the handler turns into the default platform.
FallbackScan(parts) ==
    LET hits == {i \in 1..Len(parts) : IsFourDigit8(parts[i])}
    IN  IF hits = {} THEN DefaultPlatform
        ELSE MappingGet(parts[CHOOSE i \in hits : \A j \in hits : i <= j])

\* Stage 1: the platform inferred from the image-archive filename.
_extract_platform_from_filename(parts) ==
    LET dPart == PartAfter(parts, "d")
        fPart == PartAfter(parts, "f")
    IN  IF dPart # None /\ dPart \in DOMAIN PLATFORM_MAPPING
        THEN PLATFORM_MAPPING[dPart]
        ELSE IF fPart # None /\ fPart \in DOMAIN PLATFORM_MAPPING
        THEN PLATFORM_MAPPING[fPart]
        ELSE IF fPart # None /\ <<BasePlatform(fPart[1])>> \in DOMAIN PLATFORM_MAPPING
        THEN PLATFORM_MAPPING[<<BasePlatform(fPart[1])>>]
        ELSE IF \E i \in 1..Len(parts) : ContainsNcs1010(parts[i])
        THEN <<"ncs1010">>
        ELSE FallbackScan(parts)

(***************************************************************************)
(* Stage 2: the platform derived from an extracted qcow2 filename.         *)
(***************************************************************************)
\* The last part of a qcow2 filename, by the part it ends: T[s] is s followed
\* by ".qcow2".
LowerQcow2 ==
    ("25.1.2" :> "25.1.2.qcow2") @@ ("7.11.1" :> "7.11.1.qcow2") @@
    ("x64" :> "x64.qcow2") @@ ("disk" :> "disk.qcow2") @@
    ("8000" :> "8000.qcow2") @@ ("8101" :> "8101.qcow2") @@
    ("8202" :> "8202.qcow2") @@ ("8808" :> "8808.qcow2") @@
    ("9999" :> "9999.qcow2") @@ ("81015" :> "81015.qcow2") @@
    ("32FH" :> "32FH.qcow2") @@ ("O" :> "O.qcow2")

\* The same with the extension in upper case.
UpperQcow2 == ("25.1.2" :> "25.1.2.QCOW2") @@ ("7.11.1" :> "7.11.1.QCOW2")

\* part.replace('.qcow2', ''): case-sensitive, so an upper-case extension stays.
StemOfLower ==
    [p \in {LowerQcow2[s] : s \in DOMAIN LowerQcow2} |->
        CHOOSE s \in DOMAIN LowerQcow2 : LowerQcow2[s] = p]

StripQcow2(part) == IF part \in DOMAIN StemOfLower THEN StemOfLower[part] ELSE part

\* the part matches \d+\.\d+\.\d+ as a whole
IsVersion(part) == part \in {"25.1.2", "7.11.1"}

\* re.sub(r'-x64-\d+\.\d+\.\d+$|-\d+\.\d+\.\d+$', '', base_name)
StripVersion(parts) ==
    LET n == Len(parts)
    IN  IF n >= 2 /\ IsVersion(parts[n])
        THEN IF n >= 3 /\ parts[n - 1] = "x64"
             THEN SubSeq(parts, 1, n - 2)
             ELSE SubSeq(parts, 1, n - 1)
        ELSE parts

\* qcow2_pattern.replace('-x64', '')
RemoveX64(key) ==
    LET keep(i) == i = 1 \/ key[i] # "x64"
        F[i \in 0..Len(key)] ==
            IF i = 0 THEN <<>>
            ELSE IF keep(i) THEN Append(F[i - 1], key[i]) ELSE F[i - 1]
    IN  F[Len(key)]

\* pattern_base of each key of the companion table
PatternBase == [k \in DOMAIN QCOW2_TO_PLATFORM |-> RemoveX64(k)]

\* re.match(r'^(\d{4})', base_name).group(1), or "" when there is no match
LeadingFourDigits(part) ==
    CASE part \in {"8000", "8101", "8102", "8111", "8122", "8201", "8202",
                   "8212", "8301", "8711", "8804", "8808", "2512", "9999"} -> part
      [] part = "81015" -> "8101"
      [] OTHER -> ""

\* Faulty variant of _extract_platform_from_qcow2_filename: no stem resolves.
Qcow2NeverResolves(qcow2_filename) == None

_extract_platform_from_qcow2_filename(qcow2_filename) ==
    LET stripped == [i \in 1..Len(qcow2_filename) |-> StripQcow2(qcow2_filename[i])]
        base_name == StripVersion(stripped)
        partial == {k \in DOMAIN QCOW2_TO_PLATFORM : PatternBase[k] = base_name}
    IN  IF base_name \in DOMAIN QCOW2_TO_PLATFORM
        THEN QCOW2_TO_PLATFORM[base_name]
        ELSE IF partial # {}
        THEN QCOW2_TO_PLATFORM[CHOOSE k \in partial : TRUE]
        ELSE IF Len(base_name) >= 1 /\ LeadingFourDigits(base_name[1]) # ""
        THEN MappingGet(LeadingFourDigits(base_name[1]))
        ELSE None

\* f.suffix.lower() == '.qcow2'
IsQcow2File(name) ==
    name[Len(name)] \in DOMAIN StemOfLower \cup {UpperQcow2[s] : s \in DOMAIN UpperQcow2}

\* f.suffix.lower() == '.iso'
IsIsoFile(name) == name[Len(name)] \in {"a.iso", "b.ISO"}

\* Faulty variant of FirstQcow2: the last qcow2 member is taken.
LastQcow2(extracted_files) ==
    LET qcow2_files == SelectSeq(extracted_files, IsQcow2File)
    IN  IF qcow2_files = <<>> THEN None ELSE qcow2_files[Len(qcow2_files)]

\* qcow2_files[0].name, or None when the archive held no qcow2 file
FirstQcow2(extracted_files) ==
    LET qcow2_files == SelectSeq(extracted_files, IsQcow2File)
    IN  IF qcow2_files = <<>> THEN None ELSE qcow2_files[1]

\* Faulty variant of RefinedPlatform: a platform that is already set is kept.
RefineKeepsPlatform(current, extracted_files) == current

\* self.platform after _refine_platform_from_extracted_files
RefinedPlatform(current, extracted_files) ==
    LET qcow2_filename == FirstQcow2(extracted_files)
        refined_platform ==
            IF qcow2_filename = None THEN None
            ELSE _extract_platform_from_qcow2_filename(qcow2_filename)
    IN  IF refined_platform # None THEN refined_platform ELSE current

(***************************************************************************)
(* The captured output of the child.  A line is a record: lead is its      *)
(* leading whitespace, head its text up to the path it names, arg that     *)
(* path.                                                                   *)
(***************************************************************************)
Scratch == "/tmp/scratch"
Drop1 == "/tmp/drop1"
Drop2 == "/tmp/drop2"
Artifact == "/out/img.tar"
Paths == {Scratch, Drop1, Drop2, Artifact}

ImgSentinel == "IMG_DROP_FOLDER:"
YamlSentinel == "YAML_DROP_FOLDER:"
SavingHead == "Saving docker image, to"

Lines ==
    {[lead |-> "", head |-> ImgSentinel, arg |-> Drop1],
     [lead |-> " ", head |-> ImgSentinel, arg |-> Drop2],
     [lead |-> "", head |-> YamlSentinel, arg |-> Drop1],
     [lead |-> " ", head |-> YamlSentinel, arg |-> Drop2],
     [lead |-> "", head |-> SavingHead, arg |-> Artifact],
     [lead |-> "", head |-> "img_drop_folder:", arg |-> Drop2]}

\* line.strip()
Strip(line) == [line EXCEPT !.lead = ""]

\* line.startswith(prefix), case-sensitive
StartsWith(line, prefix) == line.lead = "" /\ line.head = prefix

\* line.split(':', 1)[1].strip()
FolderPath(line) == line.arg

\* Faulty variant of SentinelIndex: the last line carrying the prefix.
SentinelIndexLast(output, prefix) ==
    LET hits == {i \in 1..Len(output) : StartsWith(Strip(output[i]), prefix)}
    IN  IF hits = {} THEN 0 ELSE CHOOSE i \in hits : \A j \in hits : j <= i

\* The first line of the output that carries the prefix (0: none): the loop
\* of _cleanup_img_drop_folder returns at the first such line.
SentinelIndex(output, prefix) ==
    LET hits == {i \in 1..Len(output) : StartsWith(Strip(output[i]), prefix)}
    IN  IF hits = {} THEN 0 ELSE CHOOSE i \in hits : \A j \in hits : i <= j

\* Path.exists() and Path.is_dir(): "partial" is a directory that a failed
\* deletion has left with part of its contents gone.
IsDir(kind) == kind \in {"dir", "partial"}

\* What shutil.rmtree(path) can do: remove the whole tree, raise before it
\* removed anything, or raise after it removed part of the contents.
RmOutcomes == {"removed", "failed", "partial"}

\* The file system after shutil.rmtree(path) with the given outcome.
Rmtree(f, path, rm) ==
    [f EXCEPT ![path] = IF rm = "removed" THEN "none"
                        ELSE IF rm = "partial" THEN "partial" ELSE @]

\* Faulty variant of DropCleanup: a failed deletion escapes as an exception.
DropCleanupRaises(output, prefix, f, rm) ==
    LET i == SentinelIndex(output, prefix)
        folder_path == FolderPath(Strip(output[i]))
    IN  IF i = 0 THEN [cleaned |-> FALSE, fs |-> f, removed |-> {}, tried |-> {}, raised |-> FALSE]
        ELSE IF IsDir(f[folder_path])
        THEN IF rm = "removed"
             THEN [cleaned |-> TRUE, fs |-> Rmtree(f, folder_path, rm),
                   removed |-> {folder_path}, tried |-> {folder_path},
                   raised |-> FALSE]
             ELSE [cleaned |-> FALSE, fs |-> Rmtree(f, folder_path, rm),
                   removed |-> {}, tried |-> {folder_path}, raised |-> TRUE]
        ELSE [cleaned |-> FALSE, fs |-> f, removed |-> {}, tried |-> {}, raised |-> FALSE]

\* The body shared by _cleanup_img_drop_folder and _cleanup_yaml_drop_folder:
\* cleaned is the returned bool, fs the file system afterwards, removed the
\* directories deleted, tried the directories rmtree was called on, raised
\* whether an exception left the function.
DropCleanup(output, prefix, f, rm) ==
    LET i == SentinelIndex(output, prefix)
        folder_path == FolderPath(Strip(output[i]))
    IN  IF i = 0 THEN [cleaned |-> FALSE, fs |-> f, removed |-> {}, tried |-> {}, raised |-> FALSE]
        ELSE IF IsDir(f[folder_path])
        THEN IF rm = "removed"
             THEN [cleaned |-> TRUE, fs |-> Rmtree(f, folder_path, rm),
                   removed |-> {folder_path}, tried |-> {folder_path},
                   raised |-> FALSE]
             ELSE [cleaned |-> FALSE, fs |-> Rmtree(f, folder_path, rm),
                   removed |-> {}, tried |-> {folder_path}, raised |-> FALSE]
        ELSE [cleaned |-> FALSE, fs |-> f, removed |-> {}, tried |-> {}, raised |-> FALSE]

_cleanup_img_drop_folder(output, f, rm) == DropCleanup(output, ImgSentinel, f, rm)

\* Faulty variant of _cleanup_yaml_drop_folder: the YAML sentinel is handled
\* only when the output carries an IMG sentinel too.
YamlCleanupNeedsImg(output, f, rm) ==
    IF SentinelIndex(output, ImgSentinel) = 0
    THEN [cleaned |-> FALSE, fs |-> f, removed |-> {}, tried |-> {}, raised |-> FALSE]
    ELSE DropCleanup(output, YamlSentinel, f, rm)

_cleanup_yaml_drop_folder(output, f, rm) == DropCleanup(output, YamlSentinel, f, rm)

\* re.search(r'Saving docker image,.*?to\s+(.+\.tar)', line, re.IGNORECASE)
MatchesSaving(line) == line.head \in {SavingHead, "saving docker image, to"}

\* Faulty variant of _extract_docker_image_path: a path is reported only when
\* the file exists.
ExtractPathIfExists(output, f) ==
    LET hits == {i \in 1..Len(output) : MatchesSaving(Strip(output[i]))}
        first == CHOOSE i \in hits : \A j \in hits : i <= j
    IN  IF hits = {} \/ f[output[first].arg] = "none" THEN None
        ELSE <<output[first].arg>>

\* The path of the first matching line, or None; <<p>> is the path p.
_extract_docker_image_path(output, f) ==
    LET hits == {i \in 1..Len(output) : MatchesSaving(Strip(output[i]))}
    IN  IF hits = {} THEN None
        ELSE <<output[CHOOSE i \in hits : \A j \in hits : i <= j].arg>>

(***************************************************************************)
(* find_iso_tar_from_image_tar: the companion installer archive.           *)
(***************************************************************************)
\* the part matches \d+
IsDigits(part) ==
    part \in {"8000", "8101", "8202", "8301", "8808", "2512", "25123", "9999"}

\* the part matches eft[\d\.]+\.tar
IsEftTar(part) == part \in {"eft15.1.tar", "eft14.tar"}

\* the part matches [\w]+
IsWordPart(part) ==
    part \in {"8000", "8101", "8202", "8301", "8808", "2512", "25123", "9999",
              "32FH", "M", "sys", "f", "d", "image", "images", "iso", "x64",
              "ncs1010", "rel"}

\* the part ends with ".tar"
EndsWithTar(part) == part \in {"eft15.1.tar", "eft14.tar", "image.tar", "ncs1010.tar"}

\* part.startswith(prefix)
HasPrefix(part, prefix) == part = prefix \/ <<part, prefix>> \in {<<"25123", "2512">>}

\* One of the three patterns of the source matches the filename.
MatchesImagePattern(filename) ==
    LET n == Len(filename)
    IN  /\ n >= 6
        /\ filename[1] = "8000"
        /\ IsDigits(filename[2])
        /\ filename[3] \in {"f", "d"}
        /\ IsDigits(filename[4])
        /\ \A i \in 5..(n - 2) : IsWordPart(filename[i])
        /\ filename[n - 1] \in {"image", "images"}
        /\ IsEftTar(filename[n])

\* f"{base_pattern}-iso-{eft_version}.tar"
ExpectedIsoName(filename) ==
    <<filename[1], filename[2], "iso", filename[Len(filename)]>>

\* Faulty variant of ReconstructedIsoName: the eft tag is not carried over.
ReconstructedIsoNameFixedEft(filename) ==
    IF MatchesImagePattern(filename)
    THEN <<filename[1], filename[2], "iso", "eft15.1.tar">>
    ELSE None

\* The installer archive name reconstructed from the image archive name, None
\* when no pattern matches.
ReconstructedIsoName(filename) ==
    IF MatchesImagePattern(filename) THEN ExpectedIsoName(filename) ELSE None

\* parent_dir.glob("*-iso-*.tar")
GlobIso(name) ==
    /\ Len(name) >= 3
    /\ \E i \in 2..(Len(name) - 1) : name[i] = "iso"
    /\ EndsWithTar(name[Len(name)])

\* iso_file.name.startswith(base_pattern)
StartsWithBase(name, filename) ==
    Len(name) >= 2 /\ name[1] = filename[1] /\ HasPrefix(name[2], filename[2])

\* Faulty variant of find_iso_tar_from_image_tar: without the fallback.
FindIsoExactOnly(image_tar_path, listing) ==
    IF ReconstructedIsoName(image_tar_path) \in listing \ {None}
    THEN {ReconstructedIsoName(image_tar_path)}
    ELSE {None}

\* The values find_iso_tar_from_image_tar may return in a directory holding
\* the files of listing (glob order is the file system's): {None} is failure.
find_iso_tar_from_image_tar(image_tar_path, listing) ==
    IF ReconstructedIsoName(image_tar_path) = None THEN {None}
    ELSE IF ReconstructedIsoName(image_tar_path) \in listing
    THEN {ReconstructedIsoName(image_tar_path)}
    ELSE LET matching == {f \in listing : GlobIso(f) /\ StartsWithBase(f, image_tar_path)}
         IN  IF matching = {} THEN {None} ELSE matching

(***************************************************************************)
(* Invocations: the command line and the directory that holds the archives.*)
(***************************************************************************)
ImageFixed == <<"8000", "2512", "f", "8101", "image", "eft15.1.tar">>
ImagePlain == <<"image.tar">>
IsoExact == <<"8000", "2512", "iso", "eft15.1.tar">>
IsoOther == <<"8000", "25123", "iso", "eft14.tar">>
IsoElsewhere == <<"downloads/installer.tar">>
UserPlatform == <<"8202", "32FH", "M">>

\* Members of archives.
Readme == <<"readme.txt">>
QcowFH == <<"8101", "32FH", "x64", "25.1.2.qcow2">>
QcowBase == <<"8202", "x64", "25.1.2.qcow2">>
QcowDisk == <<"disk.qcow2">>

ImageArchives ==
    {<<Readme>>, <<Readme, QcowFH, QcowBase>>, <<QcowBase>>, <<QcowDisk, QcowFH>>}

\* image_tar: the positional argument; iso_tar, image_tar_flag: --iso-tar and
\* --image-tar; temp_exists: --temp-dir names a directory that exists already;
\* listing: the files of the directory of the archives; members: what the
\* image archive holds; script: whether bake-and-build.sh exists.
Easy ==
    [image_tar |-> ImageFixed, iso_tar |-> None, image_tar_flag |-> None,
     platform |-> None, docker_name |-> None, target |-> "all",
     no_cleanup |-> FALSE, temp_dir |-> None,
     temp_exists |-> FALSE, listing |-> {ImageFixed, IsoExact},
     members |-> <<Readme, QcowFH, QcowBase>>, script |-> TRUE]

Invocations ==
    {Easy,
     [Easy EXCEPT !.members = <<Readme>>],
     [Easy EXCEPT !.members = <<QcowBase>>],
     [Easy EXCEPT !.members = <<QcowDisk, QcowFH>>],
     [Easy EXCEPT !.platform = UserPlatform, !.members = <<QcowBase>>],
     [Easy EXCEPT !.platform = UserPlatform, !.members = <<Readme>>],
     [Easy EXCEPT !.no_cleanup = TRUE, !.docker_name = <<"mydocker">>, !.target = "kne"],
     [Easy EXCEPT !.temp_dir = <<Scratch>>, !.temp_exists = TRUE, !.docker_name = <<"">>],
     [Easy EXCEPT !.listing = {ImageFixed, IsoOther}],
     [Easy EXCEPT !.listing = {ImageFixed}],
     [Easy EXCEPT !.listing = {IsoExact}],
     [Easy EXCEPT !.iso_tar = IsoOther, !.listing = {ImageFixed, IsoExact, IsoOther}],
     [Easy EXCEPT !.iso_tar = IsoElsewhere, !.image_tar_flag = ImagePlain,
                  !.listing = {ImageFixed, IsoOther, IsoElsewhere, ImagePlain}],
     [Easy EXCEPT !.iso_tar = IsoElsewhere, !.listing = {ImageFixed, IsoElsewhere}],
     [Easy EXCEPT !.image_tar = ImagePlain, !.iso_tar = IsoExact, !.image_tar_flag = ImageFixed,
                  !.listing = {ImagePlain, ImageFixed, IsoExact}],
     [Easy EXCEPT !.image_tar = ImagePlain, !.listing = {ImagePlain, IsoExact}],
     [Easy EXCEPT !.script = FALSE],
     [Easy EXCEPT !.image_tar = None],
     [Easy EXCEPT !.image_tar = None, !.iso_tar = IsoExact],
     [Easy EXCEPT !.image_tar = None, !.iso_tar = IsoExact, !.image_tar_flag = ImagePlain,
                  !.listing = {ImagePlain, IsoExact}],
     [Easy EXCEPT !.image_tar = None, !.iso_tar = IsoOther, !.image_tar_flag = ImageFixed]}

(***************************************************************************)
(* What the archives may hold, and what the child may do.                  *)
(***************************************************************************)
IsoArchives == {<<Readme>>, <<Readme, <<"a.iso">>, <<"b.ISO">>>>}

\* The required-files manifest: conf whether required_files.conf exists, lines
\* its lines (lead: leading whitespace, text: the rest), present the files
\* that exist under the root.
ManifestGood ==
    [conf |-> TRUE,
     lines |-> <<[lead |-> "", text |-> "# needed"], [lead |-> "", text |-> ""],
                 [lead |-> " ", text |-> "#b.sh"], [lead |-> " ", text |-> "a.sh"]>>,
     present |-> {"a.sh"}]

Manifests ==
    {ManifestGood,
     [ManifestGood EXCEPT !.present = {}],
     [ManifestGood EXCEPT !.present = {"b.sh"}],
     [ManifestGood EXCEPT !.lines = Append(@, [lead |-> "", text |-> "b.sh"])],
     [ManifestGood EXCEPT !.conf = FALSE]}

\* line.strip() and not line.strip().startswith('#')
IsRequiredLine(line) == line.text \notin {"", "# needed", "#b.sh"}

\* files = [line.strip() for line in f if ...]
RequiredFiles(lines) == {l.text : l \in {x \in Range(lines) : IsRequiredLine(x)}}

\* Faulty variant of _initial_file_check: only a missing manifest fails.
InitialFileCheckConfOnly(m) == m.conf

\* _initial_file_check: TRUE when it returns, FALSE when it raises
\* CreateSingleDockerError (no manifest, or a listed file is missing).
_initial_file_check(m) == m.conf /\ RequiredFiles(m.lines) \ m.present = {}

\* The exit codes of the child as Popen reports them: negative for a signal.
ChildCodes == {0, 2, -9}

\* The most lines the child writes.
MaxLines == 2

\* The return value of _extract_sdk_version_from_iso.
HardcodedVersion == "24.10.2230.6.dc"

\* The output _run_bake_and_build returns when it caught an exception.
ErrorOutput == <<[lead |-> "", head |-> "Error occurred during execution:", arg |-> ""]>>

\* The stages of one run, in the order of run().
Stages ==
    <<"validate", "extract_iso", "extract_image", "refine", "find_iso", "sdk",
      "log_dir", "build_cmd", "child", "sentinels", "artifact", "verify", "report">>

VARIABLES
    pc,                 \* the position of the program
    trace,              \* the stages entered so far, in order
    failed,             \* the stage that raised, or ""
    iso_tar_path,       \* self.iso_tar_path
    image_tar_path,     \* self.image_tar_path
    arg_platform,       \* args.platform
    docker_name,        \* self.docker_name
    target,             \* self.target
    cleanup,            \* self.cleanup
    temp_dir_path,      \* self.temp_dir_path
    listing,            \* the files in the directory of the archives
    script_exists,      \* whether bake-and-build.sh exists
    image_archive,      \* the members of the image archive
    mode,               \* the argument shape main() found: "easy", "power", "none"
    manifest,           \* the required-files manifest _initial_file_check read
    args,               \* args.image_tar, args.iso_tar and args.image_tar_flag
    platform,           \* self.platform
    initial_platform,   \* self.platform when the constructor returned
    temp_dir,           \* self.temp_dir, <<path>>
    scratch_created,    \* _create_temp_directory has returned
    cleanup_attempted,  \* shutil.rmtree(self.temp_dir) was called
    scratch_holds,      \* what the scratch directory holds: "foreign", "extracted"
    fs,                 \* the file system: path -> "none" | "file" | "dir" | "partial"
    iso_files,          \* iso_extracted_files
    image_files,        \* image_extracted_files
    iso_path,           \* self.iso_path
    sdk_version,        \* self.sdk_version
    log_dir,            \* self.log_dir
    cmd,                \* the command line of the child
    child,              \* "none" | "running" | "exited"
    all_output,         \* the lines read from the child
    child_code,         \* the exit code of the child, <<c>>
    return_code,        \* return_code of run(), <<c>>
    output,             \* bake_build_output
    docker_image_path,  \* docker_image_path of run(), <<p>>
    run_result,         \* the value a return statement of run() has set, <<c>>
    exit_status,        \* the exit status of the process, <<c>>
    img_cleaned,        \* what _cleanup_img_drop_folder returned
    yaml_cleaned,       \* what _cleanup_yaml_drop_folder returned
    img_removed,        \* the directories _cleanup_img_drop_folder deleted
    yaml_removed,       \* the directories _cleanup_yaml_drop_folder deleted
    img_tried,          \* the directories _cleanup_img_drop_folder called rmtree on
    yaml_tried,         \* the directories _cleanup_yaml_drop_folder called rmtree on
    fs_at_exit,         \* the file system when the child had exited
    fn_in,              \* the argument of a function applied on its own
    fn_out,             \* its result
    written,            \* the read loop in detail: the lines the child has written
    pipe,               \* those of them readline() has not returned yet
    pipe_open,          \* whether the write end of the pipe is still open
    log_file,           \* the lines appended to the build log
    log_failures,       \* how many appends to the build log failed
    unread_at_exit      \* how many lines were unread when the child exited

ctx == <<iso_tar_path, image_tar_path, arg_platform, docker_name, target, cleanup,
         temp_dir_path, listing, script_exists, image_archive, mode, manifest,
         args>>
plat == <<platform, initial_platform>>
scratch == <<temp_dir, scratch_created, cleanup_attempted, scratch_holds>>
files == <<iso_files, image_files, iso_path, sdk_version, log_dir, cmd>>
proc == <<child, all_output, child_code>>
results == <<return_code, output, docker_image_path, run_result>>
drops == <<img_cleaned, yaml_cleaned, img_removed, yaml_removed, img_tried,
          yaml_tried, fs_at_exit>>
pure == <<fn_in, fn_out>>
stream == <<written, pipe, pipe_open, log_file, log_failures, unread_at_exit>>
vars == <<pc, trace, failed, ctx, plat, scratch, fs, files, proc, results,
          exit_status, drops, pure, stream>>

Idle ==
    /\ trace = <<>>
    /\ failed = ""
    /\ iso_tar_path = None
    /\ image_tar_path = None
    /\ arg_platform = None
    /\ docker_name = None
    /\ target = "all"
    /\ cleanup = TRUE
    /\ temp_dir_path = None
    /\ listing = {}
    /\ script_exists = TRUE
    /\ image_archive = <<>>
    /\ mode = ""
    /\ manifest = None
    /\ args = None
    /\ platform = None
    /\ initial_platform = None
    /\ temp_dir = None
    /\ scratch_created = FALSE
    /\ cleanup_attempted = FALSE
    /\ scratch_holds = {}
    /\ fs = [p \in Paths |-> IF p = Drop2 THEN "dir" ELSE "none"]
    /\ iso_files = <<>>
    /\ image_files = <<>>
    /\ iso_path = None
    /\ sdk_version = None
    /\ log_dir = None
    /\ cmd = <<>>
    /\ child = "none"
    /\ all_output = <<>>
    /\ child_code = None
    /\ return_code = None
    /\ output = <<>>
    /\ docker_image_path = None
    /\ run_result = None
    /\ exit_status = None
    /\ img_cleaned = FALSE
    /\ yaml_cleaned = FALSE
    /\ img_removed = {}
    /\ yaml_removed = {}
    /\ img_tried = {}
    /\ yaml_tried = {}
    /\ fs_at_exit = [p \in Paths |-> "none"]
    /\ written = <<>>
    /\ pipe = <<>>
    /\ pipe_open = FALSE
    /\ log_file = <<>>
    /\ log_failures = 0
    /\ unread_at_exit = 0

Init == pc = "main" /\ Idle /\ fn_in = None /\ fn_out = None

\* sys.exit(code): the status the operating system delivers
ExitStatusOf(code) == code % 256

\* A stage of run() is entered.
Enter(stage) == trace' = Append(trace, stage)

\* Faulty variant of EasyModeIsoTar: the explicit --iso-tar is used when the
\* discovery finds nothing.
EasyModeIsoTarFallsBack(explicit, found) == IF found = None THEN explicit ELSE found

\* main(), easy mode: iso_tar_path is what the discovery returned; an
\* explicit --iso-tar only draws a warning.
EasyModeIsoTar(explicit, found) == found

\* main(): mode selection and, in easy mode, discovery of the installer archive.
Main ==
    /\ pc = "main"
    /\ \E inv \in Invocations :
        /\ arg_platform' = inv.platform
        /\ docker_name' = inv.docker_name
        /\ target' = inv.target
        /\ cleanup' = ~inv.no_cleanup
        /\ temp_dir_path' = inv.temp_dir
        /\ listing' = inv.listing
        /\ script_exists' = inv.script
        /\ image_archive' = inv.members
        /\ mode' = IF inv.image_tar # None THEN "easy"
                   ELSE IF inv.iso_tar # None /\ inv.image_tar_flag # None THEN "power"
                   ELSE "none"
        /\ manifest' = manifest
        /\ args' = [image_tar |-> inv.image_tar, iso_tar |-> inv.iso_tar,
                    image_tar_flag |-> inv.image_tar_flag]
        /\ fs' = [fs EXCEPT ![Scratch] = IF inv.temp_exists THEN "dir" ELSE "none"]
        /\ scratch_holds' = IF inv.temp_exists THEN {"foreign"} ELSE {}
        /\ IF inv.image_tar # None
           THEN \E found \in find_iso_tar_from_image_tar(inv.image_tar, inv.listing) :
                    /\ image_tar_path' = inv.image_tar
                    /\ iso_tar_path' = EasyModeIsoTar(inv.iso_tar, found)
                    /\ IF EasyModeIsoTar(inv.iso_tar, found) = None
                       THEN pc' = "done" /\ exit_status' = <<ExitStatusOf(1)>>
                       ELSE pc' = "construct" /\ exit_status' = exit_status
           ELSE IF inv.iso_tar # None /\ inv.image_tar_flag # None
           THEN /\ image_tar_path' = inv.image_tar_flag
                /\ iso_tar_path' = inv.iso_tar
                /\ pc' = "construct"
                /\ exit_status' = exit_status
           ELSE /\ image_tar_path' = None
                /\ iso_tar_path' = None
                /\ pc' = "done"
                /\ exit_status' = <<ExitStatusOf(1)>>
    /\ UNCHANGED <<trace, failed, plat, temp_dir, scratch_created, cleanup_attempted,
                   files, proc, results, drops, pure, stream>>

\* Faulty variant of InputsValid: the image archive is not looked for.
InputsValidIsoOnly == iso_tar_path \in listing /\ script_exists

\* _validate_inputs: both archives and the build script exist.
InputsValid == iso_tar_path \in listing /\ image_tar_path \in listing /\ script_exists

\* CreateSingleDocker.__init__ with _validate_inputs; an exception it raises
\* is caught by main(), which exits 1.
Construct ==
    /\ pc = "construct"
    /\ Enter("validate")
    /\ IF InputsValid
       THEN /\ platform' = IF arg_platform # None THEN arg_platform
                           ELSE _extract_platform_from_filename(image_tar_path)
            /\ initial_platform' = platform'
            /\ pc' = "manifest"
            /\ UNCHANGED <<failed, exit_status>>
       ELSE /\ failed' = "validate"
            /\ pc' = "done"
            /\ exit_status' = <<ExitStatusOf(1)>>
            /\ UNCHANGED plat
    /\ UNCHANGED <<ctx, scratch, fs, files, proc, results, drops, pure, stream>>

\* run(): _initial_file_check; a missing file raises CreateSingleDockerError.
InitialFileCheck ==
    /\ pc = "manifest"
    /\ \E m \in Manifests :
        /\ manifest' = m
        /\ IF _initial_file_check(m) THEN pc' = "mktemp" /\ failed' = failed
           ELSE pc' = "except" /\ failed' = "manifest"
    /\ UNCHANGED <<iso_tar_path, image_tar_path, arg_platform, docker_name, target,
                   cleanup, temp_dir_path, listing, script_exists, image_archive, mode,
                   args>>
    /\ UNCHANGED <<trace, plat, scratch, fs, files, proc, results,
                   exit_status, drops, pure, stream>>

\* run(): _create_temp_directory.
CreateTempDirectory ==
    /\ pc = "mktemp"
    /\ temp_dir' = <<Scratch>>
    /\ scratch_created' = TRUE
    /\ fs' = [fs EXCEPT ![Scratch] = "dir"]
    /\ pc' = "extract_iso"
    /\ UNCHANGED <<trace, failed, ctx, plat, cleanup_attempted, scratch_holds, files, proc,
                   results, exit_status, drops, pure, stream>>

\* run(): _extract_tar_file(self.iso_tar_path, ...); a failure raises
\* CreateSingleDockerError.
ExtractIsoTar ==
    /\ pc = "extract_iso"
    /\ Enter("extract_iso")
    /\ \/ \E members \in IsoArchives :
            /\ iso_files' = members
            /\ scratch_holds' = scratch_holds \cup {"extracted"}
            /\ pc' = "extract_image"
            /\ failed' = failed
       \/ /\ pc' = "except"
          /\ failed' = "extract_iso"
          /\ UNCHANGED <<iso_files, scratch_holds>>
    /\ UNCHANGED <<ctx, plat, temp_dir, scratch_created, cleanup_attempted, fs, image_files, iso_path, sdk_version,
                   log_dir, cmd, proc, results, exit_status, drops, pure, stream>>

\* run(): _extract_tar_file(self.image_tar_path, ...).
ExtractImageTar ==
    /\ pc = "extract_image"
    /\ Enter("extract_image")
    /\ \/ /\ image_files' = image_archive
          /\ scratch_holds' = scratch_holds \cup {"extracted"}
          /\ pc' = "refine"
          /\ failed' = failed
       \/ /\ pc' = "except"
          /\ failed' = "extract_image"
          /\ UNCHANGED <<image_files, scratch_holds>>
    /\ UNCHANGED <<ctx, plat, temp_dir, scratch_created, cleanup_attempted, fs, iso_files, iso_path, sdk_version,
                   log_dir, cmd, proc, results, exit_status, drops, pure, stream>>

\* run(): _refine_platform_from_extracted_files(image_extracted_files).
RefinePlatform ==
    /\ pc = "refine"
    /\ Enter("refine")
    /\ platform' = RefinedPlatform(platform, image_files)
    /\ pc' = "find_iso"
    /\ UNCHANGED <<failed, ctx, initial_platform, scratch, fs, files, proc,
                   results, exit_status, drops, pure, stream>>

\* Faulty variant of FindIsoFile: a missing ISO file does not stop the run.
FindIsoFileUnchecked ==
    /\ pc = "find_iso"
    /\ Enter("find_iso")
    /\ LET found == SelectSeq(iso_files, IsIsoFile)
       IN  iso_path' = IF found = <<>> THEN iso_path ELSE found[1]
    /\ pc' = "sdk"
    /\ UNCHANGED <<failed, ctx, plat, scratch, fs, iso_files, image_files,
                   sdk_version, log_dir, cmd, proc, results, exit_status, drops, pure, stream>>

\* run(): _find_iso_file(iso_extracted_files): the first ISO file, or
\* CreateSingleDockerError when there is none.
FindIsoFile ==
    /\ pc = "find_iso"
    /\ Enter("find_iso")
    /\ LET found == SelectSeq(iso_files, IsIsoFile)
       IN  IF found = <<>>
           THEN pc' = "except" /\ failed' = "find_iso" /\ iso_path' = iso_path
           ELSE pc' = "sdk" /\ failed' = failed /\ iso_path' = found[1]
    /\ UNCHANGED <<ctx, plat, scratch, fs, iso_files, image_files, sdk_version,
                   log_dir, cmd, proc, results, exit_status, drops, pure, stream>>

\* run(): _extract_sdk_version_from_iso(self.iso_path).
ExtractSdkVersion ==
    /\ pc = "sdk"
    /\ Enter("sdk")
    /\ sdk_version' = <<HardcodedVersion>>
    /\ pc' = "log_dir"
    /\ UNCHANGED <<failed, ctx, plat, scratch, fs, iso_files, image_files,
                   iso_path, log_dir, cmd, proc, results, exit_status, drops, pure, stream>>

\* run(): _setup_logging_directory(); a failure raises Exception.
SetupLoggingDirectory ==
    /\ pc = "log_dir"
    /\ Enter("log_dir")
    /\ \E made \in BOOLEAN :
        IF made
        THEN /\ log_dir' = <<"ovxr-docker.out", sdk_version[1], platform>>
             /\ pc' = "build_cmd"
             /\ failed' = failed
        ELSE /\ log_dir' = None
             /\ pc' = "except"
             /\ failed' = "log_dir"
    /\ UNCHANGED <<ctx, plat, scratch, fs, iso_files, image_files, iso_path,
                   sdk_version, cmd, proc, results, exit_status, drops, pure, stream>>

\* The truth value Python gives an optional string: None and '' are false.
Truthy(opt) == opt # None /\ opt[1] # ""

\* Faulty variant of BakeAndBuildCommand: the optional flags come first.
BakeAndBuildCommandFlagsFirst ==
    <<"bash", "bake-and-build.sh">>
    \o (IF Truthy(docker_name) THEN <<"-d", docker_name[1]>> ELSE <<>>)
    \o <<"-i", iso_path, "-p", platform, "-t", target>>
    \o (IF Truthy(sdk_version) THEN <<"--forcesdk", sdk_version[1]>> ELSE <<>>)

\* _build_bake_and_build_command
BakeAndBuildCommand ==
    <<"bash", "bake-and-build.sh", "-i", iso_path, "-p", platform, "-t", target>>
    \o (IF Truthy(docker_name) THEN <<"-d", docker_name[1]>> ELSE <<>>)
    \o (IF Truthy(sdk_version) THEN <<"--forcesdk", sdk_version[1]>> ELSE <<>>)

\* run(): cmd = self._build_bake_and_build_command().
BuildCommand ==
    /\ pc = "build_cmd"
    /\ Enter("build_cmd")
    /\ cmd' = BakeAndBuildCommand
    /\ pc' = "spawn"
    /\ UNCHANGED <<failed, ctx, plat, scratch, fs, iso_files, image_files,
                   iso_path, sdk_version, log_dir, proc, results, exit_status,
                   drops, pure, stream>>

\* _run_bake_and_build: subprocess.Popen(cmd, ...); an exception is caught
\* and turned into (1, "Error occurred during execution: ...").
Spawn ==
    /\ pc = "spawn"
    /\ Enter("child")
    /\ \E started \in BOOLEAN :
        IF started
        THEN /\ child' = "running"
             /\ pc' = "reading"
             /\ UNCHANGED <<failed, return_code, output>>
        ELSE /\ child' = child
             /\ failed' = "child"
             /\ return_code' = <<1>>
             /\ output' = ErrorOutput
             /\ pc' = "artifact"
    /\ UNCHANGED <<ctx, plat, scratch, fs, files, all_output, child_code,
                   docker_image_path, run_result, exit_status, drops, pure, stream>>

\* _run_bake_and_build: one turn of the read loop: the child writes a line,
\* readline() returns it and it is appended to all_output.
ReadLine ==
    /\ pc = "reading"
    /\ child = "running"
    /\ Len(all_output) < MaxLines
    /\ \E line \in Lines : all_output' = Append(all_output, line)
    /\ UNCHANGED <<pc, trace, failed, ctx, plat, scratch, fs, files, child,
                   child_code, results, exit_status, drops, pure, stream>>

\* _run_bake_and_build: an exception raised while the child is supervised
\* (readline() failing to decode the output, say) is caught by the handler of
\* the invoker, which returns 1 and the error text; the child is not waited for.
SuperviseFails ==
    /\ pc = "reading"
    /\ child = "running"
    /\ failed' = "child"
    /\ return_code' = <<1>>
    /\ output' = ErrorOutput
    /\ pc' = "artifact"
    /\ UNCHANGED <<trace, ctx, plat, scratch, fs, files, proc, docker_image_path,
                   run_result, exit_status, drops, pure, stream>>

\* The child exits: by then it has made its drop folder and its artifact, or
\* not.  readline() returns '' and poll() the exit code: the loop ends.
ChildExit ==
    /\ pc = "reading"
    /\ child = "running"
    /\ \E code \in ChildCodes, d1 \in {"none", "file", "dir"}, art \in {"none", "file"} :
        /\ child_code' = <<code>>
        /\ fs' = [fs EXCEPT ![Drop1] = d1, ![Artifact] = art]
        /\ fs_at_exit' = fs'
    /\ child' = "exited"
    /\ pc' = "sentinels"
    /\ UNCHANGED <<trace, failed, ctx, plat, scratch, files, all_output, results,
                   exit_status, img_cleaned, yaml_cleaned, img_removed,
                   yaml_removed, img_tried, yaml_tried, pure, stream>>

\* _run_bake_and_build after process.wait(): both drop-folder cleanups, then
\* return return_code, full_output; an exception leaving a cleanup would be
\* caught by the handler of _run_bake_and_build.
ScanSentinels ==
    /\ pc = "sentinels"
    /\ Enter("sentinels")
    /\ \E rm_img \in RmOutcomes, rm_yaml \in RmOutcomes :
        LET img == _cleanup_img_drop_folder(all_output, fs, rm_img)
            yaml == _cleanup_yaml_drop_folder(all_output, img.fs, rm_yaml)
        IN  IF img.raised
            THEN /\ fs' = img.fs
                 /\ img_removed' = img.removed
                 /\ img_tried' = img.tried
                 /\ UNCHANGED <<img_cleaned, yaml_cleaned, yaml_removed, yaml_tried>>
                 /\ return_code' = <<1>>
                 /\ output' = ErrorOutput
            ELSE IF yaml.raised
            THEN /\ fs' = yaml.fs
                 /\ img_cleaned' = img.cleaned
                 /\ img_removed' = img.removed
                 /\ yaml_removed' = yaml.removed
                 /\ img_tried' = img.tried
                 /\ yaml_tried' = yaml.tried
                 /\ UNCHANGED yaml_cleaned
                 /\ return_code' = <<1>>
                 /\ output' = ErrorOutput
            ELSE /\ fs' = yaml.fs
                 /\ img_cleaned' = img.cleaned
                 /\ yaml_cleaned' = yaml.cleaned
                 /\ img_removed' = img.removed
                 /\ yaml_removed' = yaml.removed
                 /\ img_tried' = img.tried
                 /\ yaml_tried' = yaml.tried
                 /\ return_code' = child_code
                 /\ output' = all_output
    /\ pc' = "artifact"
    /\ UNCHANGED <<failed, ctx, plat, scratch, files, proc, docker_image_path,
                   run_result, exit_status, fs_at_exit, pure, stream>>

\* run(): docker_image_path = self._extract_docker_image_path(...) when
\* return_code == 0.
ExtractDockerImagePath ==
    /\ pc = "artifact"
    /\ IF return_code = <<0>>
       THEN /\ Enter("artifact")
            /\ docker_image_path' = _extract_docker_image_path(output, fs)
       ELSE UNCHANGED <<trace, docker_image_path>>
    /\ pc' = "verify"
    /\ UNCHANGED <<failed, ctx, plat, scratch, fs, files, proc, return_code,
                   output, run_result, exit_status, drops, pure, stream>>

\* Faulty variant of VerifiedCode: a missing artifact is not a failure.
VerifiedCodeUnchecked(code, path, f) == code

\* run(): a reported artifact that does not exist forces return_code to 1.
VerifiedCode(code, path, f) ==
    IF path # None /\ f[path[1]] = "none" THEN <<1>> ELSE code

\* run(): if docker_image_path: ... docker_image_file.exists().
VerifyArtifact ==
    /\ pc = "verify"
    /\ IF docker_image_path # None THEN Enter("verify") ELSE UNCHANGED trace
    /\ return_code' = VerifiedCode(return_code, docker_image_path, fs)
    /\ pc' = "report"
    /\ UNCHANGED <<failed, ctx, plat, scratch, fs, files, proc, output,
                   docker_image_path, run_result, exit_status, drops, pure, stream>>

\* Faulty variant of ReportedCode: every failure is reported as 1.
ReportedCodeForcedOne(code) == IF code = <<0>> THEN code ELSE <<1>>

\* run(): return return_code.
ReportedCode(code) == code

\* run(): the completion message and return return_code.
Report ==
    /\ pc = "report"
    /\ Enter("report")
    /\ run_result' = ReportedCode(return_code)
    /\ pc' = "finally"
    /\ UNCHANGED <<failed, ctx, plat, scratch, fs, files, proc, return_code,
                   output, docker_image_path, exit_status, drops, pure, stream>>

\* run(): except CreateSingleDockerError / except Exception: the failure
\* message and return 1.
Except ==
    /\ pc = "except"
    /\ Enter("report")
    /\ run_result' = <<1>>
    /\ pc' = "finally"
    /\ UNCHANGED <<failed, ctx, plat, scratch, fs, files, proc, return_code,
                   output, docker_image_path, exit_status, drops, pure, stream>>

\* What a directory holds after shutil.rmtree with the given outcome, as the
\* set of the possible contents: a deletion that fails part-way has removed
\* some of them.
HeldAfterRmtree(holds, rm) ==
    IF rm = "removed" \/ holds = {} THEN {{}}
    ELSE IF rm = "failed" THEN {holds}
    ELSE SUBSET holds \ {holds}

\* Faulty variant of MustCleanTemp: --no-cleanup is not honoured.
MustCleanTempAlways == temp_dir # None /\ fs[temp_dir[1]] # "none"

\* Faulty variant of MustCleanTemp: the scratch directory is kept after a failure.
MustCleanTempOnSuccess ==
    cleanup /\ temp_dir # None /\ failed = "" /\ fs[temp_dir[1]] # "none"

\* _cleanup_temp_directory: self.cleanup and self.temp_dir and
\* self.temp_dir.exists()
MustCleanTemp == cleanup /\ temp_dir # None /\ fs[temp_dir[1]] # "none"

\* Faulty variant of ExitCodeOfMain: an exception leaving run() is lost.
ExitCodeOfMainUnhandled(raised, code) == code

\* main(): sys.exit(creator.run(args)), or sys.exit(1) in the handler when
\* an exception left run().
ExitCodeOfMain(raised, code) == IF raised THEN 1 ELSE code

\* run(): finally: _cleanup_temp_directory(); then main(): sys.exit(exit_code),
\* or, when shutil.rmtree raised, main()'s handler and sys.exit(1).
Finally ==
    /\ pc = "finally"
    /\ IF MustCleanTemp
       THEN /\ cleanup_attempted' = TRUE
            /\ \E rm \in RmOutcomes :
                /\ fs' = Rmtree(fs, temp_dir[1], rm)
                /\ scratch_holds' \in HeldAfterRmtree(scratch_holds, rm)
                /\ exit_status' =
                    <<ExitStatusOf(ExitCodeOfMain(rm # "removed", run_result[1]))>>
       ELSE /\ UNCHANGED <<cleanup_attempted, fs, scratch_holds>>
            /\ exit_status' = <<ExitStatusOf(ExitCodeOfMain(FALSE, run_result[1]))>>
    /\ pc' = "done"
    /\ UNCHANGED <<trace, failed, ctx, plat, temp_dir, scratch_created, files,
                   proc, results, drops, pure, stream>>

Next ==
    \/ Main
    \/ Construct
    \/ InitialFileCheck
    \/ CreateTempDirectory
    \/ ExtractIsoTar
    \/ ExtractImageTar
    \/ RefinePlatform
    \/ FindIsoFile
    \/ ExtractSdkVersion
    \/ SetupLoggingDirectory
    \/ BuildCommand
    \/ Spawn
    \/ ReadLine
    \/ SuperviseFails
    \/ ChildExit
    \/ ScanSentinels
    \/ ExtractDockerImagePath
    \/ VerifyArtifact
    \/ Report
    \/ Except
    \/ Finally

Spec == Init /\ [][Next]_vars

(***************************************************************************)
(* Stage-1 inference applied on its own to filenames of the two shapes     *)
(* <rel>-f-<code>-image-<eft>.tar and <rel>-d-<code>-images-<eft>.tar.     *)
(***************************************************************************)
\* The most parts of a release identifier.
MaxRelParts == 2

RelParts == {"8000", "2512", "rel"}

Rels == UNION {[1..n -> RelParts] : n \in 1..MaxRelParts}

Codes ==
    {<<c>> : c \in {"8101", "8202", "8808", "8301", "9999", "ncs1010", "x"}}
    \cup {k \in DOMAIN PLATFORM_MAPPING : Len(k) > 1}

Stage1Inputs ==
    {[rel |-> r, code |-> c, name |-> r \o <<"f">> \o c \o <<"image", "eft15.1.tar">>] :
        r \in Rels, c \in Codes}
    \cup
    {[rel |-> r, code |-> c, name |-> r \o <<"d">> \o c \o <<"images", "eft15.1.tar">>] :
        r \in Rels, c \in Codes}

InitStage1 ==
    /\ pc = "stage1"
    /\ Idle
    /\ fn_in \in Stage1Inputs
    /\ fn_out = None

ApplyStage1 ==
    /\ pc = "stage1"
    /\ fn_out' = _extract_platform_from_filename(fn_in.name)
    /\ pc' = "stage1_done"
    /\ UNCHANGED <<trace, failed, ctx, plat, scratch, fs, files, proc, results,
                   exit_status, drops, fn_in, stream>>

SpecStage1 == InitStage1 /\ [][ApplyStage1]_vars

(***************************************************************************)
(* The resolver of the installer archive as a function of the filename.    *)
(***************************************************************************)
IsoPlatforms == {<<"8101">>, <<"8101", "32FH">>, <<"8808">>, <<"ncs1010">>}

EftTags == {"eft15.1.tar", "eft14.tar"}

\* The image archive names <rel>-f-<platform>-image-<eft>.tar and
\* <rel>-d-<platform>-images-<eft>.tar, each in a directory that holds the
\* archive alone, with the installer archive of that name, or with another.
FindIsoInputs ==
    {[rel |-> r, platform |-> c, eft |-> e, name |-> r \o <<m[1]>> \o c \o <<m[2], e>>,
      listing |-> {r \o <<m[1]>> \o c \o <<m[2], e>>}
                  \cup (IF l = "exact" THEN {r \o <<"iso", e>>}
                        ELSE IF l = "other" THEN {IsoOther} ELSE {})] :
        r \in Rels, c \in IsoPlatforms, e \in EftTags,
        m \in {<<"f", "image">>, <<"d", "images">>},
        l \in {"alone", "exact", "other"}}

InitFindIso ==
    /\ pc = "find_iso_tar"
    /\ Idle
    /\ fn_in \in FindIsoInputs
    /\ fn_out = None

ApplyFindIso ==
    /\ pc = "find_iso_tar"
    /\ fn_out' = [expected |-> ReconstructedIsoName(fn_in.name),
                  found |-> find_iso_tar_from_image_tar(fn_in.name, fn_in.listing)]
    /\ pc' = "find_iso_tar_done"
    /\ UNCHANGED <<trace, failed, ctx, plat, scratch, fs, files, proc, results,
                   exit_status, drops, fn_in, stream>>

SpecFindIso == InitFindIso /\ [][ApplyFindIso]_vars

(***************************************************************************)
(* Stage-2 refinement applied on its own to one disk-image filename        *)
(* <stem>[-x64][-<version>].qcow2, with the extension in either case.      *)
(***************************************************************************)
Qcow2Stems ==
    {<<"8000">>, <<"8101">>, <<"8101", "32FH">>, <<"8202">>, <<"8122", "64EHF", "O">>,
     <<"8808">>, <<"9999">>, <<"81015">>, <<"disk">>}

Qcow2Versions == {"25.1.2", "7.11.1"}

\* The name of the file: its parts, the last one carrying the extension.
Qcow2Name(parts, upper) ==
    SubSeq(parts, 1, Len(parts) - 1)
        \o <<IF upper THEN UpperQcow2[parts[Len(parts)]] ELSE LowerQcow2[parts[Len(parts)]]>>

\* One filename with the platform set before the refinement.
Stage2Input(st, x, v, u, b) ==
    [stem |-> st, x64 |-> x, version |-> v, upper |-> u, before |-> b,
     name |-> Qcow2Name(st \o (IF x THEN <<"x64">> ELSE <<>>) \o v, u)]

PlatformsBefore == {<<"8201", "32FH">>, <<"8804">>}

\* The filenames: with a version the extension is in either case, without
\* one it is in lower case.
Stage2Inputs ==
    {Stage2Input(st, x, <<n>>, u, b) :
        st \in Qcow2Stems, x \in BOOLEAN, n \in Qcow2Versions, u \in BOOLEAN,
        b \in PlatformsBefore}
    \cup
    {Stage2Input(st, x, None, FALSE, b) :
        st \in Qcow2Stems, x \in BOOLEAN, b \in PlatformsBefore}

InitStage2 ==
    /\ pc = "stage2"
    /\ Idle
    /\ fn_in \in Stage2Inputs
    /\ fn_out = None

\* _refine_platform_from_extracted_files for the one qcow2 file: the platform
\* is replaced when the filename resolves.
ApplyStage2 ==
    /\ pc = "stage2"
    /\ LET refined_platform == _extract_platform_from_qcow2_filename(fn_in.name)
       IN  fn_out' = [refined |-> refined_platform,
                      platform |-> IF refined_platform # None THEN refined_platform
                                   ELSE fn_in.before]
    /\ pc' = "stage2_done"
    /\ UNCHANGED <<trace, failed, ctx, plat, scratch, fs, files, proc, results,
                   exit_status, drops, fn_in, stream>>

SpecStage2 == InitStage2 /\ [][ApplyStage2]_vars

(***************************************************************************)
(* The read loop of _run_bake_and_build in detail: the child writes to a   *)
(* pipe and exits on its own schedule, the invoker reads line by line.     *)
(* A raw line is a line of Lines with its trailing whitespace.             *)
(***************************************************************************)
RawLines ==
    {[lead |-> "", head |-> ImgSentinel, arg |-> Drop1, trail |-> " "],
     [lead |-> "", head |-> YamlSentinel, arg |-> Drop2, trail |-> ""],
     [lead |-> "", head |-> "", arg |-> "", trail |-> ""]}


\* output.rstrip()
Rstrip(raw) == [raw EXCEPT !.trail = ""]

\* Faulty variant of LoopEnds: the loop ends as soon as the child has exited.
LoopEndsOnExit(got_nothing, exited) == exited

\* Faulty variant of LoopEnds: the loop has no exit.
LoopNeverEnds(got_nothing, exited) == FALSE

\* output == '' and process.poll() is not None
LoopEnds(got_nothing, exited) == got_nothing /\ exited

InitReadLoop ==
    /\ pc = "rl_spawn"
    /\ Idle
    /\ fn_in = None
    /\ fn_out = None

\* subprocess.Popen(cmd, ...): the child starts, or Popen raises and the
\* handler returns 1.
RlSpawn ==
    /\ pc = "rl_spawn"
    /\ Enter("child")
    /\ \E started \in BOOLEAN :
        IF started
        THEN /\ child' = "running"
             /\ pipe_open' = TRUE
             /\ pc' = "rl_read"
             /\ UNCHANGED <<failed, return_code, output>>
        ELSE /\ failed' = "child"
             /\ return_code' = <<1>>
             /\ output' = ErrorOutput
             /\ pc' = "artifact"
             /\ UNCHANGED <<child, pipe_open>>
    /\ UNCHANGED <<ctx, plat, scratch, fs, files, all_output, child_code,
                   docker_image_path, run_result, exit_status, drops, pure,
                   written, pipe, log_file, log_failures, unread_at_exit>>

\* The child writes a line to its standard output or error.
ChildWrites ==
    /\ child = "running"
    /\ pipe_open
    /\ Len(written) < MaxLines
    /\ \E raw \in RawLines :
        /\ written' = Append(written, raw)
        /\ pipe' = Append(pipe, raw)
    /\ UNCHANGED <<pc, trace, failed, ctx, plat, scratch, fs, files, proc, results,
                   exit_status, drops, pure, pipe_open, log_file, log_failures,
                   unread_at_exit>>

\* The child makes one of its drop folders.
ChildMakesDrop ==
    /\ child = "running"
    /\ \E p \in {Drop1, Drop2} :
        /\ fs[p] = "none"
        /\ fs' = [fs EXCEPT ![p] = "dir"]
    /\ UNCHANGED <<pc, trace, failed, ctx, plat, scratch, files, proc, results,
                   exit_status, drops, pure, stream>>

\* The write end of the pipe is closed: by the child while it runs, or by the
\* last process that held it once the child has exited.
PipeCloses ==
    /\ child \in {"running", "exited"}
    /\ pipe_open
    /\ pipe_open' = FALSE
    /\ UNCHANGED <<pc, trace, failed, ctx, plat, scratch, fs, files, proc, results,
                   exit_status, drops, pure, written, pipe, log_file, log_failures,
                   unread_at_exit>>

\* The child exits, with lines still unread or not.
ChildTerminates ==
    /\ child = "running"
    /\ child' = "exited"
    /\ \E code \in ChildCodes : child_code' = <<code>>
    /\ unread_at_exit' = Len(pipe)
    /\ fs_at_exit' = fs
    /\ UNCHANGED <<pc, trace, failed, ctx, plat, scratch, fs, files, all_output,
                   results, exit_status, img_cleaned, yaml_cleaned, img_removed,
                   yaml_removed, img_tried, yaml_tried, pure, written, pipe,
                   pipe_open, log_file, log_failures>>

\* One turn of the loop: readline() returns the next line, or '' at end of
\* file; it blocks while the pipe is empty and open.  The loop ends, or the
\* line is appended to all_output.
RlReadline ==
    /\ pc = "rl_read"
    /\ pipe # <<>> \/ ~pipe_open
    /\ IF LoopEnds(pipe = <<>>, child = "exited")
       THEN /\ pc' = "sentinels"
            /\ pipe' = IF pipe = <<>> THEN pipe ELSE Tail(pipe)
            /\ UNCHANGED all_output
       ELSE IF pipe # <<>>
       THEN /\ all_output' = Append(all_output, Rstrip(Head(pipe)))
            /\ pipe' = Tail(pipe)
            /\ pc' = "rl_log"
       ELSE UNCHANGED <<pc, pipe, all_output>>
    /\ UNCHANGED <<trace, failed, ctx, plat, scratch, fs, files, child, child_code,
                   results, exit_status, drops, pure, written, pipe_open, log_file,
                   log_failures, unread_at_exit>>

\* The line just read is appended to the build log; a failure of the append
\* is logged as a warning and the loop goes on.
RlLog ==
    /\ pc = "rl_log"
    /\ \E appended \in BOOLEAN :
        IF appended
        THEN /\ log_file' = Append(log_file, all_output[Len(all_output)])
             /\ UNCHANGED log_failures
        ELSE /\ log_failures' = log_failures + 1
             /\ UNCHANGED log_file
    /\ pc' = "rl_read"
    /\ UNCHANGED <<trace, failed, ctx, plat, scratch, fs, files, proc, results,
                   exit_status, drops, pure, written, pipe, pipe_open,
                   unread_at_exit>>

\* An exception raised in the loop is caught by the handler of the invoker.
RlSuperviseFails ==
    /\ pc = "rl_read"
    /\ child = "running"
    /\ failed' = "child"
    /\ return_code' = <<1>>
    /\ output' = ErrorOutput
    /\ pc' = "artifact"
    /\ UNCHANGED <<trace, ctx, plat, scratch, fs, files, proc, docker_image_path,
                   run_result, exit_status, drops, pure, stream>>

NextReadLoop ==
    \/ RlSpawn
    \/ ChildWrites
    \/ ChildMakesDrop
    \/ PipeCloses
    \/ ChildTerminates
    \/ RlReadline
    \/ RlLog
    \/ RlSuperviseFails
    \/ ScanSentinels

SpecReadLoop == InitReadLoop /\ [][NextReadLoop]_vars

(***************************************************************************)
(* The run from the start of the child to the exit of the process, with    *)
(* the read loop in detail.  The steps of the tool itself are taken when   *)
(* they can be; the write end of the pipe is closed once the child has     *)
(* exited; the child writes and exits when it likes, or never.             *)
(***************************************************************************)
\* The operating system closes the write end the exited child held.
PipeClosesAtExit == child = "exited" /\ PipeCloses

NextChildRun ==
    \/ NextReadLoop
    \/ ExtractDockerImagePath
    \/ VerifyArtifact
    \/ Report
    \/ Finally

ToolSteps ==
    \/ RlSpawn
    \/ RlReadline
    \/ RlLog
    \/ ScanSentinels
    \/ ExtractDockerImagePath
    \/ VerifyArtifact
    \/ Report
    \/ Finally

SpecChildRun ==
    /\ InitReadLoop
    /\ [][NextChildRun]_vars
    /\ WF_vars(ToolSteps)
    /\ WF_vars(PipeClosesAtExit)

(***************************************************************************)
(* Properties.                                                             *)
(***************************************************************************)
\* The scratch directory was to be deleted and the deletion failed.
ScratchDeletionFailed == pc = "done" /\ cleanup_attempted /\ fs[Scratch] # "none"

\* The position of a stage in the stated order.
StagePos == [stage \in Range(Stages) |-> CHOOSE i \in 1..Len(Stages) : Stages[i] = stage]

\* The lines of out that carry the prefix after stripping, and the first one.
Carrying(out, prefix) == {i \in 1..Len(out) : Strip(out[i]).head = prefix}
FirstCarrying(out, prefix) ==
    CHOOSE i \in Carrying(out, prefix) : \A j \in Carrying(out, prefix) : i <= j

\* new extends old by further parts: new is the more specific platform.
MoreSpecific(new, old) ==
    Len(new) > Len(old) /\ SubSeq(new, 1, Len(old)) = old

\* The qcow2 members of the extracted image archive, by position.
Qcow2Positions == {i \in 1..Len(image_files) : IsQcow2File(image_files[i])}
FirstQcow2Member ==
    image_files[CHOOSE i \in Qcow2Positions : \A j \in Qcow2Positions : i <= j]

C2_ScratchGone ==
    pc = "done" /\ cleanup /\ scratch_created => fs[Scratch] = "none"

\* C2 as amended: with cleanup enabled, on every path by which run() ends after
\* the scratch directory was created its deletion has been attempted, and the
\* directory no longer exists unless that deletion itself failed, in which case
\* the invocation ends with status 1.
C2_CleanupAttempted ==
    pc = "done" /\ cleanup /\ scratch_created =>
        /\ cleanup_attempted
        /\ (fs[Scratch] # "none" => exit_status = <<1>>)

\* C2 witness: the image archive could not be extracted, and the scratch
\* directory was deleted all the same.
C2_Witness ==
    /\ pc = "done"
    /\ failed = "extract_image"
    /\ cleanup
    /\ cleanup_attempted
    /\ fs[Scratch] = "none"

\* C3: the stages are entered in the stated order, each at most once; the
\* child is started only after both archives were extracted, an installer
\* image was located and the log directory was made; a stage that raises is
\* followed by the report alone; a run that meets no error and finds its
\* artifact path has entered every stage.
C3_StageOrder ==
    /\ \A i \in 1..(Len(trace) - 1) : StagePos[trace[i]] < StagePos[trace[i + 1]]
    /\ "child" \in Range(trace) =>
        /\ {"validate", "extract_iso", "extract_image", "refine", "find_iso",
            "sdk", "log_dir", "build_cmd"} \subseteq Range(trace)
        /\ iso_files \in IsoArchives
        /\ image_files \in ImageArchives
        /\ iso_path # None /\ IsIsoFile(iso_path)
        /\ log_dir # None
    /\ \A i \in 1..Len(trace) :
        trace[i] = failed => \A j \in (i + 1)..Len(trace) : trace[j] = "report"
    /\ failed = "manifest" => Range(trace) \subseteq {"validate", "report"}
    /\ pc = "done" /\ failed # "validate" /\ trace # <<>> =>
        trace[Len(trace)] = "report"
    /\ pc = "done" /\ failed = "" /\ docker_image_path # None => trace = Stages

\* C3 witness: a run that has entered all thirteen stages.
C3_Witness == pc = "done" /\ trace = Stages

\* C4: the child exited 0, an artifact path was parsed and no file is there:
\* the exit status is 1, the report was made and the scratch cleanup attempted.
C4_MissingArtifactFails ==
    pc = "done" /\ child_code = <<0>> /\ docker_image_path # None
        /\ fs[docker_image_path[1]] = "none" =>
        /\ exit_status = <<1>>
        /\ run_result = <<1>>
        /\ trace[Len(trace)] = "report"
        /\ (cleanup => cleanup_attempted)

\* C4 witness: the child exited 0 and named an artifact that is not there.
C4_Witness ==
    /\ pc = "done"
    /\ child_code = <<0>>
    /\ docker_image_path = <<Artifact>>
    /\ fs[Artifact] = "none"
    /\ exit_status = <<1>>
    /\ ~ScratchDeletionFailed

\* C5 as stated: when no line of the output matches the "saving docker image"
\* pattern, no artifact path is reported and the exit code of the workflow is
\* the exit code of the child: 0 when the child exited 0.
C5_NoMatchKeepsChildCode ==
    pc = "done" /\ child_code # None /\ Carrying(all_output, SavingHead) = {} =>
        /\ docker_image_path = None
        /\ exit_status = <<child_code[1] % 256>>

\* The drop-folder cleanups have run: the build invoker has returned normally.
InvokerReturned == child = "exited" /\ pc \in {"artifact", "verify", "report", "finally", "done"}

\* The paths named on the first line carrying each sentinel.
FirstNamed ==
    {all_output[FirstCarrying(all_output, prefix)].arg :
        prefix \in {q \in {ImgSentinel, YamlSentinel} : Carrying(all_output, q) # {}}}

\* What one sentinel may have deleted: nothing, or the directory named on the
\* first line that carries it, and only if that was a directory before.
FirstOnly(prefix, removed, before) ==
    /\ Cardinality(removed) <= 1
    /\ \A p \in removed :
        /\ Carrying(all_output, prefix) # {}
        /\ p = all_output[FirstCarrying(all_output, prefix)].arg
        /\ IsDir(before[p])
    /\ (/\ Carrying(all_output, prefix) # {}
        /\ ~IsDir(before[all_output[FirstCarrying(all_output, prefix)].arg]))
        => removed = {}

\* C6: for each sentinel only the first line that carries it is acted on: at
\* most one directory is deleted, the one that line names, and later lines
\* with the prefix are ignored also when that first line named no directory
\* or its deletion failed: a path named only on later lines is left untouched.
C6_FirstSentinelOnly ==
    InvokerReturned =>
        /\ FirstOnly(ImgSentinel, img_removed, fs_at_exit)
        /\ FirstOnly(YamlSentinel, yaml_removed,
                     [p \in Paths |-> IF p \in img_removed THEN "none" ELSE fs_at_exit[p]])
        /\ \A p \in {Drop1, Drop2} :
            /\ p \in img_removed \cup yaml_removed => fs[p] = "none"
            /\ p \notin FirstNamed => fs[p] = fs_at_exit[p]

\* C6 witness: the first IMG_DROP_FOLDER line names no directory, a later one
\* names an existing directory, and that directory is still there at the end.
C6_Witness ==
    /\ pc = "done"
    /\ Cardinality(Carrying(all_output, ImgSentinel)) = 2
    /\ all_output[1].arg = Drop1
    /\ all_output[2].arg = Drop2
    /\ ~IsDir(fs_at_exit[Drop1])
    /\ img_removed = {}
    /\ fs[Drop2] = "dir"

\* C7 as stated: the drop-folder cleanup never raises and never changes the
\* result of the build invoker, and whenever it reports that nothing was
\* cleaned it has changed no file system state.
C7_FailedCleanupChangesNothing ==
    pc = "artifact" /\ child = "exited" =>
        /\ return_code = child_code
        /\ output = all_output
        /\ (~img_cleaned /\ ~yaml_cleaned => fs = fs_at_exit)

\* C7 as amended: the drop-folder cleanup never raises and never changes the
\* result of the build invoker: the invoker returns the exit code of the child
\* and the captured output; a cleanup returns true exactly when it deleted a
\* directory; when the named path is absent or no directory nothing is
\* changed; when the deletion fails the directory still exists, but the
\* failed deletion may have removed part of its contents.
C7_CleanupNeverChangesResult ==
    /\ pc = "artifact" /\ child = "exited" =>
        /\ return_code = child_code
        /\ output = all_output
    /\ InvokerReturned =>
        /\ img_cleaned <=> img_removed # {}
        /\ yaml_cleaned <=> yaml_removed # {}
        /\ \A p \in Paths \ (img_removed \cup yaml_removed \cup {Scratch}) :
            \/ fs[p] = fs_at_exit[p]
            \/ /\ fs[p] = "partial"
               /\ IsDir(fs_at_exit[p])
               /\ p \in FirstNamed

\* C7 witness: the sentinel names an existing directory, its deletion fails
\* part of the way, and the invoker returns the code of the child.
C7_Witness ==
    /\ pc = "artifact"
    /\ child_code = <<2>>
    /\ Carrying(all_output, ImgSentinel) # {}
    /\ fs_at_exit[all_output[FirstCarrying(all_output, ImgSentinel)].arg] = "dir"
    /\ fs[all_output[FirstCarrying(all_output, ImgSentinel)].arg] = "partial"
    /\ ~img_cleaned
    /\ return_code = <<2>>

\* C8 as stated: the platform string, once set, is only ever replaced by a
\* more specific value.
C8_OnlyMoreSpecific ==
    [][platform # None /\ platform' # platform => MoreSpecific(platform', platform)]_vars

\* C8 as amended: the platform string, once set, is replaced by the stage-2
\* refinement alone, which overwrites it with the platform derived from the
\* first extracted qcow2 filename whether or not that is more specific than, or
\* related to, the value held before; no other step changes it.
C8_ReplacedByRefinementOnly ==
    [][platform # None /\ platform' # platform =>
        /\ pc = "refine"
        /\ Qcow2Positions # {}
        /\ platform' = _extract_platform_from_qcow2_filename(FirstQcow2Member)]_vars

\* C8 witness: refinement has replaced the platform by a value that does not
\* extend the one held before.
C8_Witness ==
    /\ pc = "find_iso"
    /\ platform # initial_platform
    /\ ~MoreSpecific(platform, initial_platform)

\* C9 as stated: whenever the image archive holds a qcow2 file, the platform
\* used for the build is the stage-2 result for the first such file.
C9_Stage2AlwaysOverrides ==
    cmd # <<>> /\ Qcow2Positions # {} =>
        cmd[6] = _extract_platform_from_qcow2_filename(FirstQcow2Member)

\* C9 as amended: whenever the image archive holds a qcow2 file and stage 2
\* derives a platform from the first such file, the platform used for the
\* build is that stage-2 result, with no merging and even when it is less
\* specific; when stage 2 derives nothing from it, the platform set before
\* (stage 1 or --platform) is used.
C9_Stage2OverridesWhenResolved ==
    cmd # <<>> /\ Qcow2Positions # {} =>
        LET stage2 == _extract_platform_from_qcow2_filename(FirstQcow2Member)
        IN  cmd[6] = IF stage2 # None THEN stage2 ELSE initial_platform

\* C9 witness: the build uses a stage-2 result that is less specific than the
\* platform set before.
C9_Witness ==
    /\ cmd # <<>>
    /\ Qcow2Positions # {}
    /\ cmd[6] = <<"8202">>
    /\ MoreSpecific(initial_platform, cmd[6])

\* C10 as stated, for a code of one part: stage 1 returns the table's value
\* for a code in the table, the raw code for an absent 4-digit code beginning
\* with 8, and the default 8201-32FH otherwise.
C10_Stage1ByCode ==
    pc = "stage1_done" /\ Len(fn_in.code) = 1 =>
        fn_out =
            IF fn_in.code \in DOMAIN PLATFORM_MAPPING THEN PLATFORM_MAPPING[fn_in.code]
            ELSE IF IsFourDigit8(fn_in.code[1]) THEN fn_in.code
            ELSE DefaultPlatform

\* C11 as stated: when the user supplies --platform, the platform passed to
\* the build script with -p is the user-supplied value, whatever files the
\* image archive contains.
C11_UserPlatformWins ==
    cmd # <<>> /\ arg_platform # None => cmd[6] = arg_platform

\* The flags the command line ends with, given which options count as set.
OptionalFlags(with_name, with_sdk) ==
    (IF with_name THEN <<"-d", docker_name[1]>> ELSE <<>>)
    \o (IF with_sdk THEN <<"--forcesdk", sdk_version[1]>> ELSE <<>>)

\* The fixed head of the command line.
FixedFlags == <<"bash", "bake-and-build.sh", "-i", iso_path, "-p", platform, "-t", target>>

\* C16 as stated: the command line is the script, -i <installer image>,
\* -p <platform>, -t <target> in that order, then -d <name> if and only if
\* --docker-name was given, then --forcesdk <version> if and only if a version
\* string is available; the -p value is the platform after refinement.
C16_CommandLine ==
    cmd # <<>> =>
        /\ cmd = FixedFlags \o OptionalFlags(docker_name # None, sdk_version # None)
        /\ cmd[6] = RefinedPlatform(initial_platform, image_files)

\* C16 as amended: as stated, except that -d <name> is appended if and only
\* if a non-empty image name was given: an empty --docker-name adds nothing.
C16_CommandLineNonEmptyName ==
    cmd # <<>> =>
        /\ cmd = FixedFlags \o OptionalFlags(docker_name \notin {None, <<"">>},
                                             sdk_version # None)
        /\ sdk_version = <<HardcodedVersion>>
        /\ cmd[6] = RefinedPlatform(initial_platform, image_files)

\* C16 witness: a command line with a target other than the default, an image
\* name and the toolchain version.
C16_Witness ==
    /\ Len(cmd) = 12
    /\ SubSeq(cmd, 7, 12) = <<"-t", "kne", "-d", "mydocker", "--forcesdk", HardcodedVersion>>

\* C12 as stated: for every image archive name <rel>-f-<platform>-image-<eft>.tar
\* or <rel>-d-<platform>-images-<eft>.tar the reconstructed installer archive
\* name is exactly <rel>-iso-<eft>.tar.
C12_ReconstructedName ==
    pc = "find_iso_tar_done" => fn_out.expected = fn_in.rel \o <<"iso", fn_in.eft>>

\* Nothing of the workflow has happened: no scratch directory, no extraction,
\* no child.
NothingStarted ==
    /\ ~scratch_created
    /\ temp_dir = None
    /\ iso_files = <<>>
    /\ image_files = <<>>
    /\ child = "none"
    /\ cmd = <<>>

\* The files next to the image archive that match *-iso-*.tar and whose name
\* starts with the release identifier of the image archive.
SiblingIsos ==
    {f \in listing :
        /\ Len(f) >= 3
        /\ \E i \in 2..(Len(f) - 1) : f[i] = "iso"
        /\ EndsWithTar(f[Len(f)])
        /\ f[1] = image_tar_path[1]
        /\ HasPrefix(f[2], image_tar_path[2])}

\* C13: in easy mode, when the exactly reconstructed installer archive is not
\* in the directory (or no name could be reconstructed), the resolver
\* returns a file of the directory matching *-iso-*.tar whose name starts with
\* the release identifier if there is one, and otherwise the tool exits 1 with
\* no scratch directory, no extraction and no child.
C13_FallbackOrFail ==
    mode = "easy" =>
        IF ~MatchesImagePattern(image_tar_path)
        THEN /\ iso_tar_path = None
             /\ pc = "done"
             /\ exit_status = <<1>>
             /\ NothingStarted
        ELSE <<image_tar_path[1], image_tar_path[2], "iso",
               image_tar_path[Len(image_tar_path)]>> \notin listing =>
                IF SiblingIsos # {}
                THEN iso_tar_path \in SiblingIsos
                ELSE /\ iso_tar_path = None
                     /\ pc = "done"
                     /\ exit_status = <<1>>
                     /\ NothingStarted

\* C13 witness: the exact installer archive is absent and the resolver has
\* returned another installer archive of the directory.
C13_Witness ==
    /\ mode = "easy"
    /\ pc = "construct"
    /\ IsoExact \notin listing
    /\ iso_tar_path = IsoOther

\* C14: when neither argument shape is satisfied, or a resolved archive path
\* does not exist, the tool exits non-zero and no scratch directory was
\* created, no archive extracted and no child started.
C14_BadArgumentsFail ==
    /\ pc # "main"
    /\ \/ mode = "none"
       \/ iso_tar_path \notin listing
       \/ image_tar_path \notin listing
    =>  /\ pc \in {"construct", "done"}
        /\ pc = "done" => exit_status # None /\ exit_status # <<0>>
        /\ NothingStarted

\* C14 witness: power user mode naming an installer archive that does not
\* exist has ended with exit status 1.
C14_Witness ==
    /\ mode = "power"
    /\ iso_tar_path \notin listing
    /\ image_tar_path \in listing
    /\ pc = "done"
    /\ exit_status = <<1>>

\* C15: the manifest is checked before anything else of the workflow: the
\* scratch directory exists only after a manifest was read, and when a file
\* listed in it (blank lines and #-comment lines aside) is missing, the run
\* ends with exit code 1, without scratch directory, extraction or child.
C15_ManifestChecked ==
    /\ scratch_created \/ iso_files # <<>> \/ child # "none" => manifest # None
    /\ manifest # None =>
        LET listed == {l.text : l \in {x \in Range(manifest.lines) :
                            x.text # "" /\ x.text \notin {"# needed", "#b.sh"}}}
        IN  listed \ manifest.present # {} =>
                /\ failed = "manifest"
                /\ pc \in {"except", "finally", "done"}
                /\ pc = "finally" => run_result = <<1>>
                /\ pc = "done" => exit_status = <<1>>
                /\ NothingStarted
    /\ manifest = ManifestGood => failed # "manifest"

\* C15 witness: a manifest with comment and blank lines lists a file that is
\* missing, and the run has ended with exit code 1.
C15_Witness ==
    /\ manifest = [ManifestGood EXCEPT !.lines = Append(@, [lead |-> "", text |-> "b.sh"])]
    /\ pc = "done"
    /\ exit_status = <<1>>

\* C17: no exception ends the invocation other than through an exit status:
\* one raised while the child is spawned or supervised becomes return code 1
\* of the build invoker, and one raised by a stage of run() or by the final
\* cleanup of the scratch directory ends the invocation with exit status 1.
C17_ExceptionsEndInExitOne ==
    /\ failed = "child" /\ pc # "spawn" => return_code = <<1>> /\ output = ErrorOutput
    /\ pc = "finally" /\ failed # "" => run_result = <<1>>
    /\ pc = "done" =>
        /\ exit_status # None
        /\ failed # "" => exit_status = <<1>>
        /\ cleanup_attempted /\ fs[Scratch] # "none" => exit_status = <<1>>

\* C17 witness: the child exited 0, run() was about to return 0, the deletion
\* of the scratch directory raised, and the invocation ended with status 1.
C17_Witness ==
    /\ pc = "done"
    /\ failed = ""
    /\ run_result = <<0>>
    /\ cleanup_attempted
    /\ fs[Scratch] # "none"
    /\ exit_status = <<1>>

\* The build invoker returned from its normal path, in the detailed read loop.
ReturnedNormally == pc = "artifact" /\ failed = ""

\* The lines the child wrote, as readline() and rstrip() hand them over.
StrippedWritten == [i \in 1..Len(written) |-> Rstrip(written[i])]

\* s is t with some elements left out, in the same order.
RECURSIVE IsSubsequence(_, _)
IsSubsequence(s, t) ==
    IF s = <<>> THEN TRUE
    ELSE IF t = <<>> THEN FALSE
    ELSE IF Head(s) = Head(t) THEN IsSubsequence(Tail(s), Tail(t))
    ELSE IsSubsequence(s, Tail(t))

DeletesDropFolder ==
    \E p \in {Drop1, Drop2} :
        /\ IsDir(fs[p])
        /\ fs'[p] \in {"none", "partial"}
        /\ fs'[p] # fs[p]

\* The step that scans the captured output for the sentinels.
ScanStep == pc = "sentinels" /\ pc' # "sentinels"

\* The directory named on the first line that carries the YAML sentinel.
YamlNamed == all_output[FirstCarrying(all_output, YamlSentinel)].arg

\* C19: a drop folder is deleted only after the child has exited and all its
\* output was captured; the scan is made for every exit code of the child,
\* and the YAML_DROP_FOLDER directory is processed whether or not an
\* IMG_DROP_FOLDER line was present, named a directory or was deleted: when
\* the first YAML line names a directory that the IMG cleanup has not just
\* deleted, its deletion is attempted, and reported if and only if it worked.
C19_ScanAfterExitIndependently ==
    [][/\ DeletesDropFolder =>
            /\ child = "exited"
            /\ child_code # None
            /\ pipe = <<>>
            /\ Len(all_output) = Len(written)
       /\ ScanStep =>
            /\ child = "exited"
            /\ child_code \in {<<c>> : c \in ChildCodes}
            /\ Carrying(all_output, YamlSentinel) # {} /\ IsDir(fs[YamlNamed])
               /\ YamlNamed \notin img_removed' =>
                    /\ yaml_tried' = {YamlNamed}
                    /\ yaml_cleaned' <=> fs'[YamlNamed] = "none"
            /\ Carrying(all_output, YamlSentinel) = {} => yaml_tried' = {}
      ]_vars

\* C19 witness: the child exited with a non-zero code, its output carried no
\* IMG_DROP_FOLDER line, and the directory of the YAML_DROP_FOLDER line was
\* deleted.
C19_Witness ==
    /\ ReturnedNormally
    /\ child_code = <<2>>
    /\ Carrying(all_output, ImgSentinel) = {}
    /\ Carrying(all_output, YamlSentinel) # {}
    /\ yaml_cleaned
    /\ yaml_tried = {Drop2}
    /\ fs_at_exit[Drop2] = "dir"
    /\ fs[Drop2] = "none"

\* A token of exactly four digits.
IsFourDigitToken(part) ==
    part \in {"8000", "8101", "8102", "8111", "8122", "8201", "8202", "8212",
              "8301", "8711", "8804", "8808", "9999"}

\* The stem of a disk-image filename: the name without its extension and
\* without a trailing -x64-<version> or -<version>.
StemOf(in) ==
    IF in.version # None THEN in.stem
    ELSE in.stem \o (IF in.x64 THEN <<"x64">> ELSE <<>>)

\* The companion-table keys that equal the stem once their -x64 suffix is
\* removed.
KeysWithoutX64(stem) ==
    {k \in DOMAIN QCOW2_TO_PLATFORM :
        k[Len(k)] = "x64" /\ SubSeq(k, 1, Len(k) - 1) = stem}

\* The platform the stated priority order gives for a stem, or None.
ResolvedByPriority(stem) ==
    IF stem \in DOMAIN QCOW2_TO_PLATFORM THEN QCOW2_TO_PLATFORM[stem]
    ELSE IF KeysWithoutX64(stem) # {}
    THEN QCOW2_TO_PLATFORM[CHOOSE k \in KeysWithoutX64(stem) : TRUE]
    ELSE IF IsFourDigitToken(stem[1])
    THEN (IF <<stem[1]>> \in DOMAIN PLATFORM_MAPPING THEN PLATFORM_MAPPING[<<stem[1]>>]
          ELSE <<stem[1]>>)
    ELSE None

\* C20 as stated: stage 2 strips the extension and the version suffix and
\* resolves the stem by exact companion-table key, then by key without its
\* -x64 suffix, then by the leading 4-digit token through the platform table
\* (the raw token when absent); otherwise there is no result and the platform
\* set before is left unchanged.
C20_Stage2ByPriority ==
    pc = "stage2_done" =>
        /\ fn_out.refined = ResolvedByPriority(StemOf(fn_in))
        /\ fn_out.platform =
               IF ResolvedByPriority(StemOf(fn_in)) # None
               THEN ResolvedByPriority(StemOf(fn_in))
               ELSE fn_in.before

\* The run has returned and the process has exited.
RunReturned == pc = "done" /\ "report" \in Range(trace) /\ exit_status # None

\* C21 as stated: the run returns if and only if the child terminates: once
\* the child has exited the run reaches the report step and returns an exit
\* code, and a run whose child has not exited never returns.
C21_ReturnsIffChildExits ==
    /\ (child = "exited") ~> RunReturned
    /\ [](child = "running" => pc # "done")

\* C21 as amended: the read loop ends only at end of file with the child
\* exited; once the child has exited and its output stream has reached end of
\* file the run reaches the report step and returns an exit code; while the
\* child runs the run does not return (no timeout, no cancellation), except
\* when an exception is raised while the child is supervised: then the
\* invoker returns 1 without waiting and the run returns 1 with the child
\* still running.
C21_ReturnsWhenChildExits ==
    /\ (child = "exited") ~> RunReturned
    /\ [](child = "running" /\ pc \in {"artifact", "verify", "report", "finally", "done"} =>
            failed = "child" /\ return_code = <<1>>)
    /\ [](child = "running" /\ pc = "done" => exit_status = <<1>>)
    /\ [][pc = "rl_read" /\ pc' = "sentinels" =>
            pipe = <<>> /\ ~pipe_open /\ child = "exited"]_vars

\* C21 witness: the child exited with a line unread, the loop read it, and
\* the run reached the report step and returned the exit code.
C21_Witness ==
    /\ RunReturned
    /\ child = "exited"
    /\ unread_at_exit > 0
    /\ Len(all_output) = 2
    /\ failed = ""
    /\ child_code = <<2>>
    /\ exit_status = <<2>>

\* A positional image archive was given together with --iso-tar or
\* --image-tar.
PositionalWithFlags ==
    /\ args # None
    /\ args.image_tar # None
    /\ args.iso_tar # None \/ args.image_tar_flag # None

\* The installer archives the discovery can return for the positional image
\* archive: the reconstructed name, or a sibling matching *-iso-*.tar.
Discoverable ==
    IF ~MatchesImagePattern(args.image_tar) THEN {}
    ELSE {f \in listing :
            \/ f = <<args.image_tar[1], args.image_tar[2], "iso",
                     args.image_tar[Len(args.image_tar)]>>
            \/ /\ Len(f) >= 3
               /\ \E i \in 2..(Len(f) - 1) : f[i] = "iso"
               /\ f[1] = args.image_tar[1]
               /\ HasPrefix(f[2], args.image_tar[2])}

\* C22: when a positional image archive is given together with explicit
\* archive flags, the image archive used is the positional one and the
\* installer archive used is one the discovery found next to it; the values
\* of --iso-tar and --image-tar are not used; when the discovery finds
\* nothing the tool exits 1 with nothing started, whatever --iso-tar names.
C22_PositionalPairWins ==
    PositionalWithFlags =>
        /\ mode = "easy"
        /\ image_tar_path = args.image_tar
        /\ iso_tar_path \in Discoverable \cup {None}
        /\ Discoverable = {} =>
            /\ iso_tar_path = None
            /\ pc = "done"
            /\ exit_status = <<1>>
            /\ NothingStarted
        /\ Discoverable # {} => iso_tar_path # None
        /\ cmd # <<>> => iso_tar_path \in Discoverable

\* C22 witness: --iso-tar names an existing archive, the discovery found
\* nothing next to the positional image archive, and the tool has exited 1.
C22_Witness ==
    /\ PositionalWithFlags
    /\ args.iso_tar = IsoElsewhere
    /\ IsoElsewhere \in listing
    /\ Discoverable = {}
    /\ pc = "done"
    /\ exit_status = <<1>>

\* C23 as stated: the artifact path is extracted and checked only when the
\* child exited 0; for a non-zero exit code c of the child run() returns c;
\* the exit code of the workflow is 0 only if the child exited 0, and it
\* differs from the exit code of the child only when a missing artifact
\* forces it from 0 to 1.
C23_ArtifactOnlyAfterZero ==
    /\ docker_image_path # None \/ {"artifact", "verify"} \cap Range(trace) # {} =>
        child_code = <<0>>
    /\ pc \in {"finally", "done"} /\ child_code \notin {None, <<0>>} =>
        run_result = child_code
    /\ pc = "done" /\ exit_status = <<0>> => child_code = <<0>>
    /\ pc = "done" /\ child_code # None /\ exit_status # <<child_code[1] % 256>> =>
        /\ child_code = <<0>>
        /\ exit_status = <<1>>
        /\ docker_image_path # None
        /\ fs[docker_image_path[1]] = "none"

\* C24 as stated: the exit status of the invocation is the status run() had
\* determined before the scratch cleanup, whether the deletion of the scratch
\* directory succeeds or fails.
C24_CleanupKeepsOutcome ==
    pc = "done" /\ run_result # None => exit_status = <<run_result[1] % 256>>

\* The step keeps the scratch directory and all it holds.
ScratchKept ==
    /\ IsDir(fs[Scratch]) => fs'[Scratch] = fs[Scratch]
    /\ scratch_holds \subseteq scratch_holds'

\* The last step of a run that has cleanup enabled and uses a --temp-dir that
\* existed before the run and still holds what it held then.
EndsRunInOldTempDir ==
    /\ pc = "finally"
    /\ pc' = "done"
    /\ cleanup
    /\ scratch_created
    /\ temp_dir_path # None
    /\ "foreign" \in scratch_holds

\* The step deletes nothing.
NothingDeleted == \A p \in Paths : fs[p] # "none" => fs'[p] = fs[p]

\* C25 as stated: with --no-cleanup the scratch directory and the extracted
\* files are never deleted; with cleanup enabled and a --temp-dir that existed
\* before the run the whole directory, foreign content included, is removed at
\* the end of the run; when the run fails before the scratch directory is
\* created nothing is deleted.
C25_ScratchOwnership ==
    [][/\ pc # "main" /\ ~cleanup => ScratchKept
       /\ EndsRunInOldTempDir => fs'[Scratch] = "none" /\ scratch_holds' = {}
       /\ pc # "main" /\ ~scratch_created' => NothingDeleted /\ scratch_holds' = scratch_holds
      ]_vars

\* C25 as amended: as stated, except that the removal of a pre-existing
\* --temp-dir at the end of the run is attempted and can fail: when it
\* succeeds the whole directory, foreign content included, is gone; when it
\* fails the directory remains, with any part of its content (foreign content
\* included) possibly deleted, and the invocation exits 1.
C25_ScratchOwnershipIfDeleted ==
    [][/\ pc # "main" /\ ~cleanup => ScratchKept
       /\ EndsRunInOldTempDir =>
            /\ cleanup_attempted'
            /\ \/ fs'[Scratch] = "none" /\ scratch_holds' = {}
               \/ /\ IsDir(fs'[Scratch])
                  /\ scratch_holds' \subseteq scratch_holds
                  /\ exit_status' = <<1>>
       /\ pc # "main" /\ ~scratch_created' => NothingDeleted /\ scratch_holds' = scratch_holds
      ]_vars

\* C25 witness: a run with cleanup enabled in a --temp-dir that existed before
\* has ended, and the directory with its foreign content is gone.
C25_Witness ==
    /\ pc = "done"
    /\ cleanup
    /\ temp_dir_path = <<Scratch>>
    /\ scratch_created
    /\ cleanup_attempted
    /\ fs[Scratch] = "none"
    /\ scratch_holds = {}
    /\ exit_status = <<0>>

====
